---- MODULE Spec2Model ----
(***************************************************************************)
(* InputSimulator of whisper-writer (src/input_simulation.py): a keyboard  *)
(* text-entry simulator with four backends (pynput, clipboard, ydotool,    *)
(* dotool).  One typewrite call is followed step by step (pc); the         *)
(* environment the code talks to (system clipboard, key emitter, external  *)
(* command, child process and its pipe) is part of the state.              *)
(*                                                                         *)
(* Texts are sequences of characters.  Delays are kept in milliseconds     *)
(* (the code holds seconds as floats: 0.02 s is 20 here).                  *)
(***************************************************************************)
EXTENDS Integers, Sequences, FiniteSets, TLC

VARIABLES
    input_method,        \* self.input_method
    dotool_process,      \* self.dotool_process: NoProcess (None) or a process id
    keyboard,            \* self.keyboard is not None
    platform,            \* sys.platform
    pyperclip_ok,        \* the module-level pyperclip is not None
    clipboard,           \* content of the system clipboard
    child,               \* the dotool child: "none", "running" or "exited"
    spawned,             \* number of child processes spawned so far
    signals,             \* number of SIGINT sent with os.kill so far
    cleanup_calls,       \* cleanup() calls so far: "none", "once" or "repeated"
    pipe,                \* everything the child's stdin has received, token by token
    calls,               \* the dotool typewrite calls that returned: <<text, interval>>
    pc,                  \* position of the caller / of the running typewrite call
    text,                \* argument of the running (or last) typewrite call
    interval,            \* its interval, in ms
    idx,                 \* loop position of _typewrite_pynput (1-based)
    previous_clipboard,  \* local of _typewrite_clipboard
    clip_before,         \* the clipboard content when the call started
    events,              \* the primitives the running (or last) call invoked, in order
    surface,             \* the characters the target received during that call
    result               \* outcome of that call

vars == <<input_method, dotool_process, keyboard, platform, pyperclip_ok, clipboard,
          child, spawned, signals, cleanup_calls, pipe, calls, pc, text, interval, idx,
          previous_clipboard, clip_before, events, surface, result>>

self_vars == <<input_method, dotool_process, keyboard>>
env_vars == <<platform, pyperclip_ok>>
proc_vars == <<child, spawned, signals, cleanup_calls, pipe, calls>>

-----------------------------------------------------------------------------
(* Bounds of the model *)

MaxLen == 2          \* longest text typed or held by the clipboard
MaxCalls == 1        \* dotool typewrite calls that reach the pipe

-----------------------------------------------------------------------------
(* Values *)

NL == "\n"
Chars == {"a", NL}
Texts == UNION {[1..n -> Chars] : n \in 0..MaxLen}

KnownMethods == {"pynput", "clipboard", "ydotool", "dotool"}
\* ConfigManager returns whatever string the configuration holds.
Methods == KnownMethods \cup {"xdotool"}

Platforms == {"darwin", "linux", "win32"}

NoProcess == 0       \* None
Absent == -1         \* get_config_value returns None: no delay configured
ConfiguredDelays == {Absent, 0, 10, 50}

\* One invoked primitive.  op: "press", "release", "sleep", "paste" (clipboard
\* read), "copy" (clipboard write), "run" (subprocess.run), "write" and "flush"
\* (the child's stdin); res: "ok", or how the primitive failed.
Ev(op, ch, ms, txt, res) == [op |-> op, ch |-> ch, ms |-> ms, txt |-> txt, res |-> res]
Press(c) == Ev("press", c, 0, <<>>, "ok")
Release(c) == Ev("release", c, 0, <<>>, "ok")
Sleep(ms) == Ev("sleep", "", ms, <<>>, "ok")
ClipRead(v, res) == Ev("paste", "", 0, v, res)
ClipCopy(v, res) == Ev("copy", "", 0, v, res)
RunCmd(ms, t, res) == Ev("run", "", ms, t, res)
WriteDelay(ms) == Ev("write", "typedelay", ms, <<>>, "ok")
WriteType(t) == Ev("write", "type", 0, t, "ok")
Flush(res) == Ev("flush", "", 0, <<>>, res)

NonePrev == [some |-> FALSE, v |-> <<>>]
SomePrev(v) == [some |-> TRUE, v |-> v]

-----------------------------------------------------------------------------
(* Pure parts of the code *)

\* typewrite: `get_config_value(...) or 0.0` (None and 0 are both falsy).
Interval(cfg) == IF cfg = Absent \/ cfg = 0 THEN 0 ELSE cfg

SettleFloor == 20    \* the 0.02 of max(interval, 0.02)

\* Variant: the settle delay without its floor.
MinimalDelayNoFloor(iv) == iv

\* _typewrite_clipboard: minimal_delay = max(interval, 0.02)
MinimalDelay(iv) == IF iv > SettleFloor THEN iv ELSE SettleFloor

\* `with self.keyboard.pressed(modifier_key): press('v'); release('v')`
PasteHotkey(m) == <<Press(m), Press("v"), Release("v"), Release(m)>>

\* Variant: the iteration without its sleep.
KeyStrokeNoSleep(c, iv) == <<Press(c), Release(c)>>

\* _typewrite_pynput, one iteration: press(char), release(char), sleep(interval)
KeyStroke(c, iv) == <<Press(c), Release(c), Sleep(iv)>>

\* Variant: the restore branch is never taken.
RestoreNeededNever(prev, t) == FALSE

\* Variant: the restore test without the comparison with the text.
RestoreNeededNoCompare(prev, t) == prev.some

\* `previous_clipboard is not None and previous_clipboard != text`
RestoreNeeded(prev, t) == prev.some /\ prev.v # t

\* Variant: the copy of the text is tried again after it raised.
AfterWriteFailureRetry == "write"

\* Variant: a failed copy of the text is logged and the paste goes on.
AfterWriteFailureContinue == "delay"

\* The except branch of the copy of the text: _typewrite_pynput(text, interval); return
AfterWriteFailure == "pynput"

\* Variant: the fallback typing is not followed by `return`.
AfterFallbackFallsThrough == "delay"

\* The `return` that follows the fallback _typewrite_pynput(text, interval) in
\* _typewrite_clipboard: where the clipboard typist goes on after the typing.
AfterFallback == "idle"

\* Variant: no guard on the missing pyperclip.
PyperclipGuardMissing(ok) == "snapshot"

\* Variant: the fallback of the guard re-enters the clipboard typist.
PyperclipGuardSelf(ok) == IF ok THEN "snapshot" ELSE "clipboard"

\* `if pyperclip is None: ... self._typewrite_pynput(text, interval); return`
PyperclipGuard(ok) == IF ok THEN "snapshot" ELSE "pynput"

\* Variant: the PyperclipException of the restore copy is not caught.
AfterRestoreFailureRaises == "raised"

\* The except branch of the restore copy: log, then the completion path.
AfterRestoreFailure == "returned"

\* Variant: only the missing handle fails the call.
DotoolFailsOnlyWithoutHandle(p, c) == p = NoProcess

\* _typewrite_dotool fails when the handle is None (the assert) or when the child
\* is gone (flush raises BrokenPipeError).
DotoolFails(p, c) == p = NoProcess \/ c # "running"

\* Variant: the modifier does not depend on the platform.
ClipboardModifierKeyCtrl(p) == "ctrl"

\* _clipboard_modifier_key
ClipboardModifierKey(p) == IF p = "darwin" THEN "cmd" ELSE "ctrl"

\* Variant: cleanup signals whatever the method and the handle.
CleanupSignalsAlways(m, p) == TRUE

\* cleanup and _terminate_dotool: `if self.input_method == 'dotool'`, then
\* `if self.dotool_process`
CleanupSignals(m, p) == m = "dotool" /\ p # NoProcess

\* __init__: which methods get a key emitter at construction
KeyboardAtInit(m) == m \in {"pynput", "clipboard"}

\* Variant: both external tools get a persistent child.
SpawnsAtInitAnyTool(m) == m \in {"dotool", "ydotool"}

\* __init__: which methods spawn the persistent child (_initialize_dotool)
SpawnsAtInit(m) == m = "dotool"

\* Variant: the handle is kept after the signal.
HandleKept(p) == p

\* _terminate_dotool: the handle after os.kill
HandleAfterKill(p) == NoProcess

\* typewrite: the if/elif chain; an unmatched method falls off its end
Dispatch(m) ==
    CASE m = "pynput" -> "pynput"
      [] m = "clipboard" -> "clipboard"
      [] m = "ydotool" -> "ydotool"
      [] m = "dotool" -> "dotool"
      [] OTHER -> "idle"

\* run_command_or_exit_on_failure: subprocess.run(command, check=True) returns,
\* raises CalledProcessError (caught: print, exit(1)) or raises FileNotFoundError
\* (not caught).
RunCommandResult(out) ==
    CASE out = "ok" -> "returned"
      [] out = "nonzero" -> "exited"
      [] OTHER -> "raised"

\* str(interval * 1000) and f"{interval * 1000}": the float of the delay in ms
MsText(ms) ==
    CASE ms = 0 -> "0.0"
      [] ms = 10 -> "10.0"
      [] ms = 50 -> "50.0"
      [] OTHER -> "?"

\* _typewrite_dotool: the two writes, f"typedelay {interval * 1000}\n" and
\* f"type {text}\n", as the tokens that reach the pipe
DotoolLines(t, ms) == <<"typedelay ", MsText(ms), NL>> \o <<"type ">> \o t \o <<NL>>

-----------------------------------------------------------------------------
(* The reader of the pipe: a line-oriented protocol *)

RECURSIVE SplitLines(_, _)
\* The complete lines of token stream s (cur: the line being collected).
SplitLines(s, cur) ==
    IF s = <<>> THEN <<>>
    ELSE IF Head(s) = NL THEN <<cur>> \o SplitLines(Tail(s), <<>>)
    ELSE SplitLines(Tail(s), Append(cur, Head(s)))

Lines(s) == SplitLines(s, <<>>)

RECURSIVE ChildTyped(_)
\* What a reader of the lines types: the payload of every `type ` line.
ChildTyped(ls) ==
    IF ls = <<>> THEN <<>>
    ELSE (IF Head(ls) # <<>> /\ Head(Head(ls)) = "type " THEN Tail(Head(ls)) ELSE <<>>)
         \o ChildTyped(Tail(ls))

-----------------------------------------------------------------------------
(* Construction *)

Init ==
    /\ input_method \in Methods
    /\ keyboard = KeyboardAtInit(input_method)
    /\ dotool_process = (IF SpawnsAtInit(input_method) THEN 1 ELSE NoProcess)
    /\ spawned = (IF SpawnsAtInit(input_method) THEN 1 ELSE 0)
    /\ child = (IF SpawnsAtInit(input_method) THEN "running" ELSE "none")
    \* Only the clipboard method reads the platform, pyperclip and the clipboard.
    /\ platform \in (IF input_method = "clipboard" THEN Platforms ELSE {"linux"})
    /\ pyperclip_ok \in (IF input_method = "clipboard" THEN BOOLEAN ELSE {TRUE})
    /\ clipboard \in (IF input_method = "clipboard" THEN Texts ELSE {<<>>})
    /\ signals = 0
    /\ cleanup_calls = "none"
    /\ pipe = <<>>
    /\ calls = <<>>
    /\ pc = "idle"
    /\ text = <<>>
    /\ interval = 0
    /\ idx = 1
    /\ previous_clipboard = NonePrev
    /\ clip_before = <<>>
    /\ events = <<>>
    /\ surface = <<>>
    /\ result = "none"

-----------------------------------------------------------------------------
(* typewrite *)

\* typewrite(t) is called with delay cfg configured: read the interval, dispatch.
Typewrite(t, cfg) ==
    /\ pc = "idle"
    /\ input_method = "dotool" => Len(calls) < MaxCalls
    /\ text' = t
    /\ interval' = Interval(cfg)
    /\ idx' = 1
    /\ previous_clipboard' = NonePrev
    /\ clip_before' = clipboard
    /\ events' = <<>>
    /\ surface' = <<>>
    /\ pc' = Dispatch(input_method)
    /\ result' = (IF Dispatch(input_method) = "idle" THEN "returned" ELSE "running")
    /\ UNCHANGED <<self_vars, env_vars, proc_vars, clipboard>>

\* _typewrite_pynput: create the emitter if absent, then loop.
PynputEnter ==
    /\ pc = "pynput"
    /\ keyboard' = TRUE
    /\ idx' = 1
    /\ pc' = "loop"
    /\ UNCHANGED <<input_method, dotool_process, env_vars, proc_vars, clipboard, text,
                   interval, previous_clipboard, clip_before, events, surface, result>>

\* One iteration of `for char in text`: press, release, sleep.
TypeChar ==
    /\ pc = "loop"
    /\ idx <= Len(text)
    /\ events' = events \o KeyStroke(text[idx], interval)
    /\ surface' = Append(surface, text[idx])
    /\ idx' = idx + 1
    /\ UNCHANGED <<self_vars, env_vars, proc_vars, clipboard, pc, text, interval,
                   previous_clipboard, clip_before, result>>

\* The loop is exhausted: _typewrite_pynput returns, to typewrite or to the
\* clipboard typist that fell back on it, and these return.
LoopExit ==
    /\ pc = "loop"
    /\ idx > Len(text)
    /\ pc' = (IF input_method = "clipboard" THEN AfterFallback ELSE "idle")
    /\ result' = (IF pc' = "idle" THEN "returned" ELSE result)
    /\ UNCHANGED <<self_vars, env_vars, proc_vars, clipboard, text, interval, idx,
                   previous_clipboard, clip_before, events, surface>>

\* _typewrite_clipboard up to the pyperclip guard.
ClipboardEnter ==
    /\ pc = "clipboard"
    /\ keyboard' = TRUE
    /\ pc' = PyperclipGuard(pyperclip_ok)
    /\ UNCHANGED <<input_method, dotool_process, env_vars, proc_vars, clipboard, text,
                   interval, idx, previous_clipboard, clip_before, events, surface, result>>

\* previous_clipboard = pyperclip.paste(): a value, None, or PyperclipException.
ClipSnapshot(out) ==
    /\ pc = "snapshot"
    /\ events' = Append(events, ClipRead(IF out = "ok" THEN clipboard ELSE <<>>, out))
    /\ previous_clipboard' = (IF out = "ok" THEN SomePrev(clipboard) ELSE NonePrev)
    /\ pc' = "write"
    /\ UNCHANGED <<self_vars, env_vars, proc_vars, clipboard, text, interval, idx,
                   clip_before, surface, result>>

\* pyperclip.copy(text): done, or PyperclipException and the typing fallback.
ClipWrite(out) ==
    /\ pc = "write"
    /\ events' = Append(events, ClipCopy(text, out))
    /\ clipboard' = (IF out = "ok" THEN text ELSE clipboard)
    /\ pc' = (IF out = "ok" THEN "delay" ELSE AfterWriteFailure)
    /\ UNCHANGED <<self_vars, env_vars, proc_vars, text, interval, idx,
                   previous_clipboard, clip_before, surface, result>>

\* time.sleep(minimal_delay) before the paste.
ClipDelay ==
    /\ pc = "delay"
    /\ events' = Append(events, Sleep(MinimalDelay(interval)))
    /\ pc' = "paste"
    /\ UNCHANGED <<self_vars, env_vars, proc_vars, clipboard, text, interval, idx,
                   previous_clipboard, clip_before, surface, result>>

\* The paste hotkey; the target receives what the clipboard holds.
ClipPaste ==
    /\ pc = "paste"
    /\ events' = events \o PasteHotkey(ClipboardModifierKey(platform))
    /\ surface' = surface \o clipboard
    /\ pc' = "post_delay"
    /\ UNCHANGED <<self_vars, env_vars, proc_vars, clipboard, text, interval, idx,
                   previous_clipboard, clip_before, result>>

\* time.sleep(minimal_delay) after the paste.
ClipPostDelay ==
    /\ pc = "post_delay"
    /\ events' = Append(events, Sleep(MinimalDelay(interval)))
    /\ pc' = "restore"
    /\ UNCHANGED <<self_vars, env_vars, proc_vars, clipboard, text, interval, idx,
                   previous_clipboard, clip_before, surface, result>>

\* The restore branch; then _typewrite_clipboard and typewrite return.
ClipRestore(out) ==
    /\ pc = "restore"
    /\ IF RestoreNeeded(previous_clipboard, text)
       THEN /\ events' = Append(events, ClipCopy(previous_clipboard.v, out))
            /\ clipboard' = (IF out = "ok" THEN previous_clipboard.v ELSE clipboard)
       ELSE /\ out = "ok"
            /\ UNCHANGED <<events, clipboard>>
    /\ pc' = "idle"
    /\ result' = (IF RestoreNeeded(previous_clipboard, text) /\ out = "raise"
                  THEN AfterRestoreFailure ELSE "returned")
    /\ UNCHANGED <<self_vars, env_vars, proc_vars, text, interval, idx,
                   previous_clipboard, clip_before, surface>>

\* _typewrite_ydotool: one run of `ydotool type --key-delay <ms> -- <text>`.
Ydotool(out) ==
    /\ pc = "ydotool"
    /\ events' = Append(events, RunCmd(interval, text, out))
    /\ surface' = (IF out = "ok" THEN text ELSE surface)
    /\ result' = RunCommandResult(out)
    /\ pc' = (IF RunCommandResult(out) = "exited" THEN "dead" ELSE "idle")
    /\ UNCHANGED <<self_vars, env_vars, proc_vars, clipboard, text, interval, idx,
                   previous_clipboard, clip_before>>

\* _typewrite_dotool: the assert, the two writes and the flush.  Without a handle the
\* assert raises; with the child gone the flush raises BrokenPipeError and nothing
\* reaches the child.
Dotool ==
    /\ pc = "dotool"
    /\ IF DotoolFails(dotool_process, child)
       THEN /\ result' = "raised"
            /\ events' = (IF dotool_process = NoProcess THEN events
                          ELSE events \o <<WriteDelay(interval), WriteType(text),
                                           Flush("raise")>>)
            /\ UNCHANGED <<pipe, calls, surface>>
       ELSE /\ pipe' = pipe \o DotoolLines(text, interval)
            /\ calls' = Append(calls, <<text, interval>>)
            /\ surface' = ChildTyped(Lines(DotoolLines(text, interval)))
            /\ events' = events \o <<WriteDelay(interval), WriteType(text), Flush("ok")>>
            /\ result' = "returned"
    /\ pc' = "idle"
    /\ UNCHANGED <<self_vars, env_vars, child, spawned, signals, cleanup_calls, clipboard,
                   text, interval, idx, previous_clipboard, clip_before>>

-----------------------------------------------------------------------------
(* cleanup and the environment *)

\* cleanup(): _terminate_dotool for the dotool method, nothing otherwise.
Cleanup ==
    /\ pc = "idle"
    /\ cleanup_calls' = (IF cleanup_calls = "none" THEN "once" ELSE "repeated")
    /\ IF CleanupSignals(input_method, dotool_process)
       THEN /\ signals' = signals + 1
            /\ child' = "exited"
            /\ dotool_process' = HandleAfterKill(dotool_process)
       ELSE UNCHANGED <<signals, child, dotool_process>>
    /\ UNCHANGED <<input_method, keyboard, env_vars, spawned, pipe, calls, clipboard, pc,
                   text, interval, idx, previous_clipboard, clip_before, events,
                   surface, result>>

\* The child process exits on its own.
ChildExits ==
    /\ child = "running"
    /\ pc = "idle"
    /\ child' = "exited"
    /\ UNCHANGED <<self_vars, env_vars, spawned, signals, cleanup_calls, pipe, calls,
                   clipboard, pc, text, interval, idx, previous_clipboard, clip_before,
                   events, surface, result>>

Next ==
    \/ \E t \in Texts, cfg \in ConfiguredDelays : Typewrite(t, cfg)
    \/ PynputEnter
    \/ TypeChar
    \/ LoopExit
    \/ ClipboardEnter
    \/ \E out \in {"ok", "none", "raise"} : ClipSnapshot(out)
    \/ \E out \in {"ok", "raise"} : ClipWrite(out)
    \/ ClipDelay
    \/ ClipPaste
    \/ ClipPostDelay
    \/ \E out \in {"ok", "raise"} : ClipRestore(out)
    \/ \E out \in {"ok", "nonzero", "missing"} : Ydotool(out)
    \/ Dotool
    \/ Cleanup
    \/ ChildExits

Spec == Init /\ [][Next]_vars

\* The steps of a running typewrite call.
CallStep ==
    \/ PynputEnter
    \/ TypeChar
    \/ LoopExit
    \/ ClipboardEnter
    \/ \E out \in {"ok", "none", "raise"} : ClipSnapshot(out)
    \/ \E out \in {"ok", "raise"} : ClipWrite(out)
    \/ ClipDelay
    \/ ClipPaste
    \/ ClipPostDelay
    \/ \E out \in {"ok", "raise"} : ClipRestore(out)
    \/ \E out \in {"ok", "nonzero", "missing"} : Ydotool(out)
    \/ Dotool

\* typewrite is synchronous: once called it keeps executing, every primitive it
\* calls (sleep, clipboard operation, key event, command run, pipe write) returning.
FairSpec == Spec /\ WF_vars(CallStep)

-----------------------------------------------------------------------------
(* Vocabulary of the properties *)

\* The last typewrite call has returned normally.
Returned == pc = "idle" /\ result = "returned"

OnClipboard == input_method = "clipboard"

EventIndexes == 1..Len(events)

IsClipOp(e) == e.op \in {"paste", "copy"}

\* No clipboard operation of the call failed or came back without a value.
ClipOpsOk == \A k \in EventIndexes : IsClipOp(events[k]) => events[k].res = "ok"

\* The copy of the text raised during the call.
WriteRaised == \E k \in EventIndexes : events[k] = ClipCopy(text, "raise")

IsModifier(c) == c \in {"cmd", "ctrl"}

\* The paste hotkey was issued at event k.
HotkeyAt(k) == events[k].op = "press" /\ IsModifier(events[k].ch)

HotkeyIssued == \E k \in EventIndexes : HotkeyAt(k)

IsKeyEvent(e) == e.op \in {"press", "release"}

RECURSIVE PressRelease(_)
\* press(c), release(c) for each character of t, in order
PressRelease(t) ==
    IF t = <<>> THEN <<>> ELSE <<Press(Head(t)), Release(Head(t))>> \o PressRelease(Tail(t))

-----------------------------------------------------------------------------
(* C1 *)

-----------------------------------------------------------------------------
(* C3 *)

\* C3: on the clipboard backend, once the copy of T has raised, no paste hotkey is
\* issued in the call, and when the call returns the key emitter has received
\* press(c), release(c) for each character c of T in order and no other key event.
C3_WriteFailureFallsBack ==
    (OnClipboard /\ WriteRaised) =>
        /\ ~HotkeyIssued
        /\ Returned => SelectSeq(events, IsKeyEvent) = PressRelease(text)

\* A returned call whose copy of a two-character text raised.
C3_Witness ==
    /\ OnClipboard /\ Returned /\ WriteRaised
    /\ Len(text) >= 2 /\ text[1] # text[2]
    /\ surface = text

-----------------------------------------------------------------------------
(* C4 *)

\* C4: on the clipboard backend, if the clipboard already holds T when typewrite(T)
\* starts, every clipboard write of the call is the write of T and none follows the
\* paste hotkey.
C4_NoRestoreWhenSame ==
    (OnClipboard /\ clip_before = text) =>
        \A k \in EventIndexes :
            events[k].op = "copy" =>
                /\ events[k].txt = text
                /\ \A j \in 1..(k - 1) : ~HotkeyAt(j)

\* A returned call that pasted a text the clipboard already held, read successfully.
C4_Witness ==
    /\ OnClipboard /\ Returned /\ clip_before = text /\ text # <<>>
    /\ HotkeyIssued
    /\ events[1] = ClipRead(text, "ok")

-----------------------------------------------------------------------------
(* C2 *)

\* C2: for every non-empty text T and each of the four backends, a typewrite(T)
\* call that returned has delivered exactly the characters of T, in order and
\* nothing else, to the target.
C2_DeliversText ==
    (Returned /\ input_method \in KnownMethods /\ text # <<>>) => surface = text

-----------------------------------------------------------------------------
(* C5 *)

RECURSIVE LinePairs(_)
\* The two lines of each call of cs, in call order.
LinePairs(cs) ==
    IF cs = <<>> THEN <<>>
    ELSE << <<"typedelay ", MsText(Head(cs)[2])>>, <<"type ">> \o Head(cs)[1] >>
         \o LinePairs(Tail(cs))

\* C5: on the dotool backend the pipe holds, for the typewrite calls made so far
\* and in their order, the two lines `typedelay {d*1000}` and `type {T}` of each,
\* and no other line.
C5_TwoLinesPerCall ==
    input_method = "dotool" => Lines(pipe) = LinePairs(calls)

-----------------------------------------------------------------------------
(* C6 *)

\* C6: on a dotool simulator exactly one child process has been spawned, the first
\* cleanup() sends one signal and clears the handle, and later cleanup() calls send
\* none: the number of signals is 0 before the first cleanup and 1 ever after.
C6_OneSpawnOneSignal ==
    input_method = "dotool" =>
        /\ spawned = 1
        /\ signals = (IF cleanup_calls = "none" THEN 0 ELSE 1)
        /\ cleanup_calls # "none" => dotool_process = NoProcess

\* cleanup() was called more than once, with typewrite calls made before.
C6_Witness ==
    /\ input_method = "dotool"
    /\ cleanup_calls = "repeated"
    /\ signals = 1
    /\ calls # <<>>

-----------------------------------------------------------------------------
(* C7 *)

\* C7 (as claimed): at most one child process handle exists, and it exists iff the
\* input method is dotool.
C7_HandleIffDotool ==
    /\ spawned <= 1
    /\ (dotool_process # NoProcess) <=> (input_method = "dotool")

\* C7 (amended): at most one child process handle exists, and it exists iff the
\* input method is dotool and cleanup() has not been called yet.
C7_HandleIffDotoolNotCleaned ==
    /\ spawned <= 1
    /\ (dotool_process # NoProcess) <=> (input_method = "dotool" /\ cleanup_calls = "none")

\* A dotool simulator after cleanup(): the handle is gone, the method is unchanged.
C7_Witness ==
    /\ input_method = "dotool"
    /\ cleanup_calls # "none"
    /\ dotool_process = NoProcess
    /\ spawned = 1

-----------------------------------------------------------------------------
(* C8 *)

\* C8: an input method that is none of the four known ones is rejected at
\* construction: no simulator exists whose typewrite(T) returns having delivered
\* nothing of a non-empty T.
C8_UnknownMethodRejected ==
    input_method \notin KnownMethods => ~(Returned /\ text # <<>> /\ surface = <<>>)

-----------------------------------------------------------------------------
(* C9 *)

\* The external command was run and did not succeed.
CommandFailed == \E k \in EventIndexes : events[k].op = "run" /\ events[k].res # "ok"

\* C9: on the ydotool backend a non-zero exit of the command and a failure to
\* spawn it both end the host process; neither returns nor raises to the caller.
C9_FailureExitsProcess ==
    (input_method = "ydotool" /\ CommandFailed) => result = "exited"

-----------------------------------------------------------------------------
(* C10 *)

\* The event sequence of the claim, for prior clipboard v, text t, interval iv (ms)
\* and paste modifier m.
ClipboardScenario(v, t, iv, m) ==
    <<ClipRead(v, "ok"), ClipCopy(t, "ok"), Sleep(IF iv > 20 THEN iv ELSE 20),
      Press(m), Press("v"), Release("v"), Release(m),
      Sleep(IF iv > 20 THEN iv ELSE 20), ClipCopy(v, "ok")>>

IsPrefix(p, q) == Len(p) <= Len(q) /\ SubSeq(q, 1, Len(p)) = p

\* A clipboard call over a readable, different prior clipboard, without failure.
C10_Case ==
    /\ OnClipboard /\ pyperclip_ok /\ result \in {"running", "returned"}
    /\ clip_before # text
    /\ \A k \in EventIndexes : events[k].res = "ok"

\* C10: on the clipboard backend with a readable prior clipboard V # T and no
\* failure, the events of a typewrite(T) call are at every moment a prefix of: read,
\* copy T, sleep max(interval, 0.02), paste hotkey, sleep max(interval, 0.02),
\* copy V; and they are exactly that sequence when the call returns.
C10_ClipboardSequence ==
    C10_Case =>
        LET want == ClipboardScenario(clip_before, text, interval,
                                      IF platform = "darwin" THEN "cmd" ELSE "ctrl")
        IN /\ IsPrefix(events, want)
           /\ Returned => events = want

\* The scenario of the claim, with the floor applied: a returned call with an
\* interval below 0.02 s that restored a different prior clipboard.
C10_Witness ==
    /\ C10_Case /\ Returned
    /\ interval = 10
    /\ clip_before # <<>> /\ text # <<>>
    /\ Len(events) = 9

-----------------------------------------------------------------------------
(* C11 *)

RECURSIVE PressReleaseSleep(_, _)
\* press(c), release(c), sleep(d) for each character c of t, in order
PressReleaseSleep(t, d) ==
    IF t = <<>> THEN <<>>
    ELSE <<Press(Head(t)), Release(Head(t)), Sleep(d)>> \o PressReleaseSleep(Tail(t), d)

\* C11: on the pynput backend the events of typewrite(T) with delay d are at every
\* moment a prefix of press(c), release(c), sleep(d) for each character c of T in
\* order, and exactly that sequence (nothing for the empty text) when it returns.
C11_DirectKeySequence ==
    (input_method = "pynput" /\ result \in {"running", "returned"}) =>
        /\ IsPrefix(events, PressReleaseSleep(text, interval))
        /\ Returned => events = PressReleaseSleep(text, interval)

\* A returned direct-key call of two different characters with a non-zero delay.
C11_Witness ==
    /\ input_method = "pynput" /\ Returned
    /\ Len(text) >= 2 /\ text[1] # text[2]
    /\ interval = 50
    /\ Len(events) = 3 * Len(text)

-----------------------------------------------------------------------------
(* C12 *)

\* C12: on the dotool backend, a cleanup() made while no child process is alive
\* (an earlier cleanup ran, or the child exited on its own) sends no signal: while
\* the child is not running, no step sends a signal.
C12_NoSignalWhenNotAlive ==
    [][(input_method = "dotool" /\ child # "running") => signals' = signals]_vars

-----------------------------------------------------------------------------
(* C13 *)

\* C13: on the dotool backend, a typewrite(T) call made after the child process
\* has exited (after cleanup(), or on its own) raises to the caller: it does not
\* return normally, nothing reaches the pipe, and it is not tried again and no
\* child is spawned.
C13_DeadChildCallFails ==
    [][(pc = "dotool" /\ (dotool_process = NoProcess \/ child # "running"))
          => /\ result' = "raised"
             /\ pc' = "idle"
             /\ pipe' = pipe
             /\ spawned' = spawned
             /\ dotool_process' = dotool_process]_vars

\* A call on a child that exited on its own: the handle is still set, the flush raised.
C13_Witness ==
    /\ input_method = "dotool" /\ pc = "idle" /\ result = "raised"
    /\ dotool_process # NoProcess /\ child = "exited"
    /\ text # <<>>
    /\ events = <<WriteDelay(interval), WriteType(text), Flush("raise")>>

-----------------------------------------------------------------------------
(* C14 *)

\* The snapshot read of the call raised or yielded None.
ReadFailed == events # <<>> /\ events[1].op = "paste" /\ events[1].res # "ok"

\* The restore copy of the call raised.
RestoreFailed ==
    /\ HotkeyIssued
    /\ events[Len(events)].op = "copy" /\ events[Len(events)].res = "raise"

HotkeyCount == Cardinality({k \in EventIndexes : HotkeyAt(k)})

\* The clipboard writes of the call, in order.
Copies == SelectSeq(events, LAMBDA e : e.op = "copy")

\* The last clipboard call is over.
ClipboardCallOver == OnClipboard /\ pc = "idle" /\ result # "none"

\* C14 (as claimed): on the clipboard backend, when the snapshot read fails or
\* yields no value, typewrite(T) still writes T, issues the paste hotkey exactly
\* once, issues no restore copy and returns normally; when the restore copy fails,
\* typewrite(T) still returns normally.
C14_ReadAndRestoreFailuresNonFatal ==
    /\ (ClipboardCallOver /\ ReadFailed) =>
           /\ result = "returned"
           /\ Copies = <<ClipCopy(text, "ok")>>
           /\ HotkeyCount = 1
    /\ (ClipboardCallOver /\ RestoreFailed) => result = "returned"

\* C14 (amended): on the clipboard backend no typewrite call raises or exits; when
\* the snapshot read fails or yields no value and the write of T succeeds, the
\* call writes T, issues the paste hotkey exactly once, issues no restore copy and
\* returns normally; when the restore copy fails, the call still returns normally.
C14_NonFatalWhenWriteSucceeds ==
    /\ OnClipboard => result \notin {"raised", "exited"}
    /\ (ClipboardCallOver /\ ReadFailed /\ ~WriteRaised) =>
           /\ result = "returned"
           /\ Copies = <<ClipCopy(text, "ok")>>
           /\ HotkeyCount = 1
    /\ (ClipboardCallOver /\ RestoreFailed) => result = "returned"

\* A returned call whose read raised, over a clipboard that differed from the text:
\* the text was pasted and nothing was restored.
C14_Witness ==
    /\ ClipboardCallOver /\ Returned
    /\ ReadFailed /\ events[1].res = "raise"
    /\ clip_before # text /\ clip_before # <<>> /\ text # <<>>
    /\ HotkeyCount = 1
    /\ clipboard = text

-----------------------------------------------------------------------------
(* C15 *)

\* Number of events of the call with operation op.
CountOp(op) == Cardinality({k \in EventIndexes : events[k].op = op})

\* C15: within one typewrite call the clipboard read, the write of T, the paste
\* hotkey, the restore copy, the command run and the pair of pipe writes with its
\* flush are each attempted at most once, and an attempt that failed is not
\* followed by another attempt of the same operation.
C15_NoRetry ==
    /\ CountOp("paste") <= 1
    /\ Cardinality({k \in EventIndexes : events[k].op = "copy" /\ events[k].txt = text}) <= 1
    /\ CountOp("copy") <= 2
    /\ \A k \in EventIndexes :
           (events[k].op = "copy" /\ events[k].txt # text) => \E j \in 1..(k - 1) : HotkeyAt(j)
    /\ HotkeyCount <= 1
    /\ CountOp("run") <= 1
    /\ CountOp("write") <= 2
    /\ CountOp("flush") <= 1
    /\ \A j, k \in EventIndexes :
           (j < k /\ events[j].res # "ok") => events[k].op # events[j].op

\* A returned call in which the read and the write of T both failed, each once,
\* and the text was typed by the fallback.
C15_Witness ==
    /\ OnClipboard /\ Returned /\ text # <<>>
    /\ ReadFailed /\ WriteRaised
    /\ CountOp("paste") = 1 /\ CountOp("copy") = 1
    /\ CountOp("press") = Len(text)

-----------------------------------------------------------------------------
(* C16 *)

\* The key events of the call, in order.
KeyEvents == SelectSeq(events, IsKeyEvent)

\* C16: in a typewrite(T) call on the clipboard backend the paste hotkey and the
\* per-character typing are never mixed: the key events are at every moment part
\* of one paste hotkey or part of the typing of T, and when the call returns they
\* are either exactly one paste hotkey, or exactly the typing of the whole of T
\* with no paste hotkey.
C16_OneDeliveryMechanism ==
    (OnClipboard /\ result \in {"running", "returned"}) =>
        /\ \/ \E m \in {"cmd", "ctrl"} : IsPrefix(KeyEvents, PasteHotkey(m))
           \/ IsPrefix(KeyEvents, PressRelease(text))
        /\ Returned =>
               \/ \E m \in {"cmd", "ctrl"} : KeyEvents = PasteHotkey(m)
               \/ KeyEvents = PressRelease(text) /\ ~HotkeyIssued

\* A returned call that pasted a text of two characters: one hotkey, no typing.
C16_Witness ==
    /\ OnClipboard /\ Returned
    /\ Len(text) >= 2
    /\ HotkeyCount = 1
    /\ CountOp("press") = 2
    /\ surface = text

-----------------------------------------------------------------------------
(* C17 *)

RECURSIVE HeldAfter(_, _)
\* The keys held down after events evs, starting from the set held.
HeldAfter(evs, held) ==
    IF evs = <<>> THEN held
    ELSE HeldAfter(Tail(evs),
                   CASE Head(evs).op = "press" -> held \cup {Head(evs).ch}
                     [] Head(evs).op = "release" -> held \ {Head(evs).ch}
                     [] OTHER -> held)

\* C17: the paste hotkey is press(modifier), press('v'), release('v'),
\* release(modifier), the modifier being cmd on darwin and ctrl on every other
\* platform; when a typewrite call has returned, no key is left pressed.
C17_HotkeyShapeAndNoKeyHeld ==
    /\ \A k \in EventIndexes :
           HotkeyAt(k) =>
               LET m == IF platform = "darwin" THEN "cmd" ELSE "ctrl"
               IN /\ k + 3 <= Len(events)
                  /\ SubSeq(events, k, k + 3)
                         = <<Press(m), Press("v"), Release("v"), Release(m)>>
    /\ Returned => HeldAfter(events, {}) = {}

\* A returned paste on darwin: the hotkey used cmd and released it.
C17_Witness ==
    /\ OnClipboard /\ Returned /\ platform = "darwin"
    /\ HotkeyIssued
    /\ \E k \in EventIndexes : events[k] = Release("cmd")

-----------------------------------------------------------------------------
(* C18 *)

\* C18: a typewrite call is running exactly while the caller is inside it, and
\* every running call eventually ends, in one of: normal return, a failure raised
\* to the caller, or the exit of the process.
C18_CallEnds ==
    /\ [](result = "running" <=> pc \notin {"idle", "dead"})
    /\ [](pc = "dead" <=> result = "exited")
    /\ (result = "running") ~> (result \in {"returned", "raised", "exited"})

\* A call that ended with the exit of the process.
C18_Witness ==
    /\ pc = "dead" /\ result = "exited"
    /\ events = <<RunCmd(interval, text, "nonzero")>>

-----------------------------------------------------------------------------
(* C19 *)

\* C19: on the clipboard backend without pyperclip, the events of typewrite(T) are
\* at every moment a prefix of press(c), release(c), sleep(interval) for each
\* character c of T (no clipboard read or write, no paste hotkey, no settle
\* sleep), the clipboard is untouched, and the call returns with T typed in full.
C19_NoPyperclipTypes ==
    (OnClipboard /\ ~pyperclip_ok /\ result # "none") =>
        /\ result \in {"running", "returned"}
        /\ IsPrefix(events, PressReleaseSleep(text, interval))
        /\ clipboard = clip_before
        /\ Returned => (events = PressReleaseSleep(text, interval) /\ surface = text)

\* A returned call without pyperclip that typed two characters over a non-empty
\* clipboard.
C19_Witness ==
    /\ OnClipboard /\ ~pyperclip_ok /\ Returned
    /\ Len(text) >= 2 /\ clip_before # <<>>
    /\ CountOp("press") = Len(text)
    /\ CountOp("sleep") = Len(text)

-----------------------------------------------------------------------------
(* C20 *)

\* C20: on a simulator whose input method is not dotool no signal is ever sent and
\* no child process handle exists, and a cleanup() call leaves the input method,
\* the key emitter handle and the child process handle unchanged, wherever it
\* falls among the typewrite calls.
C20_CleanupFrame ==
    /\ [](input_method # "dotool" =>
              (signals = 0 /\ dotool_process = NoProcess /\ child = "none"))
    /\ [][(input_method # "dotool" /\ cleanup_calls' # cleanup_calls)
             => UNCHANGED <<input_method, keyboard, dotool_process, signals, child>>]_vars
    /\ [][input_method' = input_method]_vars

\* cleanup() called more than once on a clipboard simulator that also completed a
\* typewrite call.
C20_Witness ==
    /\ OnClipboard /\ Returned /\ text # <<>>
    /\ cleanup_calls = "repeated"
    /\ keyboard /\ signals = 0 /\ dotool_process = NoProcess

====
